---- MODULE Spec2Model ----
(***************************************************************************)
(* The lesson progression state machine of LessonContext (the reducer      *)
(* InstructionsReducer and its helpers), specification Spec, and the       *)
(* tool-call dispatcher of the LessonInstructions component, specification *)
(* DispatcherSpec.  Array positions are 0-based as in the source: position *)
(* `index` of the array is element index + 1 of the TLA+ sequence.         *)
(***************************************************************************)
EXTENDS Integers, Sequences, FiniteSets

\* ----------------------------------------------------------------- bounds
\* Longest instruction list explored (0 = the empty list the provider also
\* accepts).
MaxLen == 3
\* Number of distinct clock readings `new Date()` can return in a run.
MaxClock == 2
\* Number of `toolcall` events the transport delivers in a run.
MaxBatches == 2
\* Number of function calls the agent issues in a run, over all its batches.
MaxCalls == 2
\* Number of opening utterances the user's Start button sends in a run.
MaxUtterances == 1

\* ------------------------------------------------------------------ enums
\* enum LessonState
LessonState == {"IDLE", "IN_PROGRESS", "WAITING_RESPONSE", "COMPLETED"}

\* enum InstructionState
InstructionState == {"IDLE", "IN_PROGRESS", "WAITING_RESPONSE", "COMPLETED"}

\* enum LessonContextActions
LessonContextActions ==
  {"START_LESSON", "RESET_LESSON", "COMPLETE_LESSON", "WAIT_FOR_RESPONSE",
   "MOVE_TO_NEXT", "MOVE_TO_PREVIOUS"}

\* enum InstructionVerificationTaskInputType
InstructionVerificationTaskInputType == {"TEXT", "AUDIO", "IMAGE"}

\* `completed: Date | null`: null is 0, a Date is a clock reading >= 1.
Null == 0

\* A tag outside LessonContextActions (the reducer's `default:` branch).
UnrecognizedType == "UNRECOGNIZED"

\* enum FunctionDeclarationNames
FunctionDeclarationNames ==
  {"start_lesson", "reset_lesson", "complete_lesson", "verify_step",
   "go_to_next_step", "go_to_previous_step", "program_opened"}

\* A tool name the component does not declare.
UnknownToolName == "unknown_tool"

\* The names a function call of the agent may carry.
ToolNames == FunctionDeclarationNames \cup {UnknownToolName}

\* useState<ToolResponse | null>(null): the null value.
NullResponse == [functionResponses |-> <<>>, isNull |-> TRUE]

\* ----------------------------------------------------- instruction helpers
\* Mutant: going back to Idle forgets to clear the completion date.
markInstructionAsIdle_KeepsDate(instruction) ==
  [instruction EXCEPT !.state = "IDLE"]

markInstructionAsIdle(instruction) ==
  [instruction EXCEPT !.completed = Null, !.state = "IDLE"]

markInstructionAsInProgress(instruction) ==
  [instruction EXCEPT !.completed = Null, !.state = "IN_PROGRESS"]

\* `date` is the value `new Date()` returns.  The clock does not advance
\* within one reducer call, so every instruction completed by the same call
\* gets the same reading.
markInstructionAsCompleted(instruction, date) ==
  [instruction EXCEPT !.completed = date, !.state = "COMPLETED"]

markInstructionAsWaitingResponse(instruction) ==
  [instruction EXCEPT !.state = "WAITING_RESPONSE"]

\* ---------------------------------------------------------- lesson helpers
markLessonAsIdle(ctx) ==
  [currentInstructionIndex |-> 0,
   instructions |->
     [i \in DOMAIN ctx.instructions |->
        markInstructionAsIdle(ctx.instructions[i])],
   state |-> "IDLE"]

markLessonAsCompleted(ctx) ==
  [ctx EXCEPT !.state = "COMPLETED"]

\* Mutant: the step forward forgets to complete the instruction it leaves.
moveToNextInstruction_KeepsCurrent(ctx, date) ==
  LET nextInstructionIndex == ctx.currentInstructionIndex + 1 IN
  IF nextInstructionIndex < Len(ctx.instructions)
  THEN [ctx EXCEPT
          !.currentInstructionIndex = nextInstructionIndex,
          !.instructions =
            [i \in DOMAIN ctx.instructions |->
               IF i - 1 = nextInstructionIndex
               THEN markInstructionAsInProgress(ctx.instructions[i])
               ELSE ctx.instructions[i]]]
  ELSE markLessonAsCompleted(ctx)

\* Mutant: the bound test is off by one (<= for <), so the step forward is
\* taken from the last index too.
moveToNextInstruction_OffByOne(ctx, date) ==
  LET nextInstructionIndex == ctx.currentInstructionIndex + 1 IN
  IF nextInstructionIndex <= Len(ctx.instructions)
  THEN [ctx EXCEPT
          !.currentInstructionIndex = nextInstructionIndex,
          !.instructions =
            [i \in DOMAIN ctx.instructions |->
               LET index == i - 1 IN
               IF index = ctx.currentInstructionIndex
               THEN markInstructionAsCompleted(ctx.instructions[i], date)
               ELSE IF index = nextInstructionIndex
               THEN markInstructionAsInProgress(ctx.instructions[i])
               ELSE ctx.instructions[i]]]
  ELSE markLessonAsCompleted(ctx)

\* Mutant: the step forward marks the instruction it leaves, instead of the
\* next one, as InProgress at the next position.
moveToNextInstruction_CopiesCurrent(ctx, date) ==
  LET nextInstructionIndex == ctx.currentInstructionIndex + 1 IN
  IF nextInstructionIndex < Len(ctx.instructions)
  THEN [ctx EXCEPT
          !.currentInstructionIndex = nextInstructionIndex,
          !.instructions =
            [i \in DOMAIN ctx.instructions |->
               LET index == i - 1 IN
               IF index = ctx.currentInstructionIndex
               THEN markInstructionAsCompleted(ctx.instructions[i], date)
               ELSE IF index = nextInstructionIndex
               THEN markInstructionAsInProgress(
                      ctx.instructions[ctx.currentInstructionIndex + 1])
               ELSE ctx.instructions[i]]]
  ELSE markLessonAsCompleted(ctx)

moveToNextInstruction(ctx, date) ==
  LET nextInstructionIndex == ctx.currentInstructionIndex + 1 IN
  IF nextInstructionIndex < Len(ctx.instructions)
  THEN [ctx EXCEPT
          !.currentInstructionIndex = nextInstructionIndex,
          !.instructions =
            [i \in DOMAIN ctx.instructions |->
               LET index == i - 1 IN
               IF index = ctx.currentInstructionIndex
               THEN markInstructionAsCompleted(ctx.instructions[i], date)
               ELSE IF index = nextInstructionIndex
               THEN markInstructionAsInProgress(ctx.instructions[i])
               ELSE ctx.instructions[i]]]
  ELSE markLessonAsCompleted(ctx)

\* Mutant: the bound test is >= 0 for > 0, so the step back from the second
\* instruction lands on the first instead of resetting the lesson.
moveToPreviousInstruction_AllowsZero(ctx) ==
  LET previousInstructionIndex == ctx.currentInstructionIndex - 1 IN
  IF previousInstructionIndex >= 0
  THEN [ctx EXCEPT
          !.currentInstructionIndex = previousInstructionIndex,
          !.instructions =
            [i \in DOMAIN ctx.instructions |->
               LET index == i - 1 IN
               IF index = ctx.currentInstructionIndex
               THEN markInstructionAsIdle(ctx.instructions[i])
               ELSE IF index = previousInstructionIndex
               THEN markInstructionAsInProgress(ctx.instructions[i])
               ELSE ctx.instructions[i]]]
  ELSE markLessonAsIdle(ctx)

moveToPreviousInstruction(ctx) ==
  LET previousInstructionIndex == ctx.currentInstructionIndex - 1 IN
  IF previousInstructionIndex > 0
  THEN [ctx EXCEPT
          !.currentInstructionIndex = previousInstructionIndex,
          !.instructions =
            [i \in DOMAIN ctx.instructions |->
               LET index == i - 1 IN
               IF index = ctx.currentInstructionIndex
               THEN markInstructionAsIdle(ctx.instructions[i])
               ELSE IF index = previousInstructionIndex
               THEN markInstructionAsInProgress(ctx.instructions[i])
               ELSE ctx.instructions[i]]]
  ELSE markLessonAsIdle(ctx)

\* Mutant: the restart only touches the first instruction and leaves the
\* others as they were.
startLesson_KeepsOthers(ctx) ==
  [ctx EXCEPT
     !.instructions =
       [i \in DOMAIN ctx.instructions |->
          IF i - 1 = 0
          THEN markInstructionAsInProgress(ctx.instructions[i])
          ELSE ctx.instructions[i]],
     !.state = "IN_PROGRESS",
     !.currentInstructionIndex = 0]

\* Mutant: the restart forgets to move currentInstructionIndex back to 0.
startLesson_KeepsIndex(ctx) ==
  [ctx EXCEPT
     !.instructions =
       [i \in DOMAIN ctx.instructions |->
          LET index == i - 1 IN
          IF index = 0
          THEN markInstructionAsInProgress(ctx.instructions[i])
          ELSE IF ctx.instructions[i].state # "IDLE"
          THEN markInstructionAsIdle(ctx.instructions[i])
          ELSE ctx.instructions[i]],
     !.state = "IN_PROGRESS"]

startLesson(ctx) ==
  [ctx EXCEPT
     !.instructions =
       [i \in DOMAIN ctx.instructions |->
          LET index == i - 1 IN
          IF index = 0
          THEN markInstructionAsInProgress(ctx.instructions[i])
          ELSE IF ctx.instructions[i].state # "IDLE"
          THEN markInstructionAsIdle(ctx.instructions[i])
          ELSE ctx.instructions[i]],
     !.state = "IN_PROGRESS",
     !.currentInstructionIndex = 0]

\* Mutant: only the instructions already started are completed.
completeLesson_OnlyStarted(ctx, date) ==
  [ctx EXCEPT
     !.instructions =
       [i \in DOMAIN ctx.instructions |->
          IF ctx.instructions[i].state # "IDLE"
          THEN markInstructionAsCompleted(ctx.instructions[i], date)
          ELSE ctx.instructions[i]],
     !.state = "COMPLETED"]

completeLesson(ctx, date) ==
  [ctx EXCEPT
     !.instructions =
       [i \in DOMAIN ctx.instructions |->
          markInstructionAsCompleted(ctx.instructions[i], date)],
     !.state = "COMPLETED"]

waitForResponse(ctx) ==
  [ctx EXCEPT
     !.instructions =
       [i \in DOMAIN ctx.instructions |->
          IF ctx.instructions[i].state = "IN_PROGRESS"
          THEN markInstructionAsWaitingResponse(ctx.instructions[i])
          ELSE ctx.instructions[i]],
     !.state = "WAITING_RESPONSE"]

\* Mutant: the `default:` branch resets the lesson instead of returning the
\* state it was given.
InstructionsReducer_DefaultResets(st, type, date) ==
  CASE type = "START_LESSON"      -> startLesson(st)
    [] type = "MOVE_TO_NEXT"      -> moveToNextInstruction(st, date)
    [] type = "MOVE_TO_PREVIOUS"  -> moveToPreviousInstruction(st)
    [] type = "WAIT_FOR_RESPONSE" -> waitForResponse(st)
    [] type = "RESET_LESSON"      -> markLessonAsIdle(st)
    [] type = "COMPLETE_LESSON"   -> completeLesson(st, date)
    [] OTHER                      -> markLessonAsIdle(st)

\* The reducer: `type` is action.type, `date` the clock reading of the call.
InstructionsReducer(st, type, date) ==
  CASE type = "START_LESSON"      -> startLesson(st)
    [] type = "MOVE_TO_NEXT"      -> moveToNextInstruction(st, date)
    [] type = "MOVE_TO_PREVIOUS"  -> moveToPreviousInstruction(st)
    [] type = "WAIT_FOR_RESPONSE" -> waitForResponse(st)
    [] type = "RESET_LESSON"      -> markLessonAsIdle(st)
    [] type = "COMPLETE_LESSON"   -> completeLesson(st, date)
    [] OTHER                      -> st

\* ------------------------------------------------------------------ state
VARIABLES
  state,       \* the LessonContextState held by useReducer
  now,         \* the clock read by `new Date()`
  prev,        \* history: the LessonContextState before the last dispatch
  lastAction,  \* history: the action.type of the last dispatch ("NONE" before any)
  run,         \* history: [active, moves]: the dispatches so far end with
               \* START_LESSON followed by exactly `moves` MOVE_TO_NEXT
  updates,            \* reducer actions dispatched and not yet reduced (React's
                      \* update queue of useReducer), each tagged with its batch
  toolResponseQueue,  \* setToolResponse values not yet rendered (update queue
                      \* of useState)
  toolResponse,       \* the rendered useState value: a ToolResponse or null
  effectPending,      \* the toolResponse effect is scheduled and has not run
  sent,               \* the ToolResponses handed to client.sendToolResponse
  arrived,            \* history: functionCalls of each toolcall event, in order
  built,              \* history: functionResponses onToolCall built per event
  sessionBefore,      \* history: the session the last onToolCall started from
  connected,          \* useLiveAPIContext().connected
  listening,          \* onToolCall is registered with client.on("toolcall")
  isAwaitingFirstResponse,  \* the useState flag start() sets
  utterances,         \* number of client.send calls made by start()
  ignored             \* history: toolcall events emitted with no listener

\* The state of the LessonInstructions component and its transport.
\* The connection, the listener and the Start button of the component.
lvars == <<connected, listening, isAwaitingFirstResponse, utterances, ignored>>

dvars == <<updates, toolResponseQueue, toolResponse, effectPending, sent,
           arrived, built, sessionBefore, lvars>>

vars == <<state, now, prev, lastAction, run, updates, toolResponseQueue,
          toolResponse, effectPending, sent, arrived, built, sessionBefore,
          connected, listening, isAwaitingFirstResponse, utterances, ignored>>

\* The instruction list the provider is mounted with: every instruction Idle
\* with no completion date, as in mockInstructions (all verified by image,
\* the last one by text).
initialInstructions(n) ==
  [i \in 1..n |->
     [task |-> i,
      verificationTask |-> i,
      verificationTaskInputType |-> IF i = n THEN "TEXT" ELSE "IMAGE",
      completed |-> Null,
      state |-> "IDLE"]]

\* useReducer's initial state in LessonProvider.
LessonProvider(n) ==
  [instructions |-> initialInstructions(n),
   state |-> "IDLE",
   currentInstructionIndex |-> 0]

Init ==
  /\ \E n \in 0..MaxLen : state = LessonProvider(n)
  /\ now = 1
  /\ prev = state
  /\ lastAction = "NONE"
  /\ run = [active |-> FALSE, moves |-> 0]
  /\ updates = <<>>
  /\ toolResponseQueue = <<>>
  /\ toolResponse = NullResponse
  /\ effectPending = FALSE
  /\ sent = <<>>
  /\ arrived = <<>>
  /\ built = <<>>
  /\ sessionBefore = state
  /\ connected \in BOOLEAN
  /\ listening = TRUE
  /\ isAwaitingFirstResponse = FALSE
  /\ utterances = 0
  /\ ignored = 0

\* The history a dispatch of `type` records; reading the clock does not
\* advance it.
Record(type) ==
  /\ prev' = state
  /\ lastAction' = type
  /\ run' = IF type = "START_LESSON"
            THEN [active |-> TRUE, moves |-> 0]
            ELSE IF type = "MOVE_TO_NEXT" /\ run.active
                                          /\ run.moves < Len(state.instructions)
            THEN [run EXCEPT !.moves = @ + 1]
            ELSE [active |-> FALSE, moves |-> 0]
  /\ UNCHANGED now
  /\ UNCHANGED dvars

\* dispatch({type}): the reducer runs to completion on the current state.
StartLesson ==
  /\ state' = InstructionsReducer(state, "START_LESSON", now)
  /\ Record("START_LESSON")

MoveToNext ==
  /\ state' = InstructionsReducer(state, "MOVE_TO_NEXT", now)
  /\ Record("MOVE_TO_NEXT")

MoveToPrevious ==
  /\ state' = InstructionsReducer(state, "MOVE_TO_PREVIOUS", now)
  /\ Record("MOVE_TO_PREVIOUS")

WaitForResponse ==
  /\ state' = InstructionsReducer(state, "WAIT_FOR_RESPONSE", now)
  /\ Record("WAIT_FOR_RESPONSE")

ResetLesson ==
  /\ state' = InstructionsReducer(state, "RESET_LESSON", now)
  /\ Record("RESET_LESSON")

CompleteLesson ==
  /\ state' = InstructionsReducer(state, "COMPLETE_LESSON", now)
  /\ Record("COMPLETE_LESSON")

UnrecognizedAction ==
  /\ state' = InstructionsReducer(state, UnrecognizedType, now)
  /\ Record(UnrecognizedType)

\* Time passes between dispatches.
Tick ==
  /\ now < MaxClock
  /\ now' = now + 1
  /\ UNCHANGED <<state, prev, lastAction, run>>
  /\ UNCHANGED dvars

Next ==
  \/ StartLesson
  \/ MoveToNext
  \/ MoveToPrevious
  \/ WaitForResponse
  \/ ResetLesson
  \/ CompleteLesson
  \/ UnrecognizedAction
  \/ Tick

Spec == Init /\ [][Next]_vars

\* ------------------------------------------------- tool-call dispatcher
\* The LessonInstructions component.  React (automatic batching) queues the
\* dispatches and the setToolResponse of a handler and applies them at the
\* next render; the toolResponse effect runs after the commit and before any
\* later render.  A `toolcall` event may be delivered at any of these points.
\* The clock is not advanced in this specification.

\* Mutant: a `case FunctionDeclarationNames.ProgramOpened` that starts the
\* lesson.
DispatchedType_ProgramOpenedStarts(name) ==
  CASE name = "start_lesson"        -> "START_LESSON"
    [] name = "reset_lesson"        -> "RESET_LESSON"
    [] name = "complete_lesson"     -> "COMPLETE_LESSON"
    [] name = "verify_step"         -> "MOVE_TO_NEXT"
    [] name = "go_to_next_step"     -> "MOVE_TO_NEXT"
    [] name = "go_to_previous_step" -> "MOVE_TO_PREVIOUS"
    [] name = "program_opened"      -> "START_LESSON"
    [] OTHER                        -> "NONE"

\* Mutant: the `case FunctionDeclarationNames.VerifyStep` is missing.
DispatchedType_NoVerifyStep(name) ==
  CASE name = "start_lesson"        -> "START_LESSON"
    [] name = "reset_lesson"        -> "RESET_LESSON"
    [] name = "complete_lesson"     -> "COMPLETE_LESSON"
    [] name = "go_to_next_step"     -> "MOVE_TO_NEXT"
    [] name = "go_to_previous_step" -> "MOVE_TO_PREVIOUS"
    [] OTHER                        -> "NONE"

\* The switch of onToolCall: the action.type dispatched for a tool name,
\* "NONE" when no case matches.
DispatchedType(name) ==
  CASE name = "start_lesson"        -> "START_LESSON"
    [] name = "reset_lesson"        -> "RESET_LESSON"
    [] name = "complete_lesson"     -> "COMPLETE_LESSON"
    [] name = "verify_step"         -> "MOVE_TO_NEXT"
    [] name = "go_to_next_step"     -> "MOVE_TO_NEXT"
    [] name = "go_to_previous_step" -> "MOVE_TO_PREVIOUS"
    [] OTHER                        -> "NONE"

\* The template literal `${fCall.name} OK.`: the name followed by " OK.".
ResultString(name) == <<name, " OK.">>

\* The functionResponse object built for one function call.
functionResponse(fCall) ==
  [id |-> fCall.id,
   name |-> fCall.name,
   response |-> [result |-> [string_value |-> ResultString(fCall.name)]]]

\* Mutant: the functionResponse is pushed inside the switch cases only, so
\* a call no case matches gets none.
functionResponses_OnlyDispatched(fCalls) ==
  LET isDispatched(fCall) == DispatchedType(fCall.name) # "NONE"
      kept == SelectSeq(fCalls, isDispatched)
  IN [i \in 1..Len(kept) |-> functionResponse(kept[i])]

\* The functionResponses array after the forEach over fCalls.
functionResponses(fCalls) ==
  [i \in 1..Len(fCalls) |-> functionResponse(fCalls[i])]

\* The dispatches the forEach over fCalls makes, in order, for event `batch`.
Dispatches(fCalls, batch) ==
  LET all == [i \in 1..Len(fCalls) |->
                [type |-> DispatchedType(fCalls[i].name), batch |-> batch]]
      isDispatch(u) == u.type # "NONE"
  IN SelectSeq(all, isDispatch)

\* The reducer applied to st for each queued update, in queue order.
RECURSIVE ApplyUpdates(_, _, _)
ApplyUpdates(st, queue, date) ==
  IF queue = <<>>
  THEN st
  ELSE ApplyUpdates(InstructionsReducer(st, Head(queue).type, date),
                    Tail(queue), date)

\* The session once every queued dispatch is reduced.
Session == ApplyUpdates(state, updates, now)

\* Number of function calls in a sequence of batches.
RECURSIVE CountCalls(_)
CountCalls(batches) ==
  IF batches = <<>> THEN 0
  ELSE Len(Head(batches)) + CountCalls(Tail(batches))

\* Mutant: the handler hands the acknowledgements to client.sendToolResponse
\* itself, right after dispatching.
onToolCall_SendsDirectly(toolCall) ==
  LET fCalls == toolCall.functionCalls
      batch == Len(arrived) + 1
  IN /\ arrived' = Append(arrived, fCalls)
     /\ built' = Append(built, functionResponses(fCalls))
     /\ sessionBefore' = Session
     /\ IF Len(fCalls) > 0
        THEN /\ updates' = updates \o Dispatches(fCalls, batch)
             /\ sent' = Append(sent,
                               [functionResponses |-> functionResponses(fCalls),
                                isNull |-> FALSE])
        ELSE UNCHANGED <<updates, sent>>
     /\ UNCHANGED <<state, now, prev, lastAction, run, toolResponse,
                    effectPending, toolResponseQueue, lvars>>

\* The `toolcall` listener, run to completion on one event.
onToolCall(toolCall) ==
  LET fCalls == toolCall.functionCalls
      batch == Len(arrived) + 1
  IN /\ arrived' = Append(arrived, fCalls)
     /\ built' = Append(built, functionResponses(fCalls))
     /\ sessionBefore' = Session
     /\ IF Len(fCalls) > 0
        THEN /\ updates' = updates \o Dispatches(fCalls, batch)
             /\ toolResponseQueue' =
                  Append(toolResponseQueue,
                         [functionResponses |-> functionResponses(fCalls),
                          isNull |-> FALSE])
        ELSE UNCHANGED <<updates, toolResponseQueue>>
     /\ UNCHANGED <<state, now, prev, lastAction, run, toolResponse,
                    effectPending, sent, lvars>>

\* The agent invokes tools: the transport emits `toolcall` with a batch of
\* function calls, each with a fresh id and a name.
ToolCallEvent ==
  /\ connected
  /\ listening
  /\ Len(arrived) < MaxBatches
  /\ \E len \in 0..(MaxCalls - CountCalls(arrived)) :
       \E names \in [1..len -> ToolNames] :
         onToolCall([functionCalls |->
                       [i \in 1..len |->
                          [id |-> CountCalls(arrived) + i, name |-> names[i]]]])

\* React renders: the queued reducer actions are reduced in order, the last
\* queued setToolResponse value becomes toolResponse, and the toolResponse
\* effect is scheduled when one of its dependencies changed.
Render ==
  /\ ~effectPending
  /\ updates # <<>> \/ toolResponseQueue # <<>>
  /\ state' = ApplyUpdates(state, updates, now)
  /\ updates' = <<>>
  /\ toolResponse' = IF toolResponseQueue = <<>>
                     THEN toolResponse
                     ELSE toolResponseQueue[Len(toolResponseQueue)]
  /\ toolResponseQueue' = <<>>
  /\ effectPending' = (state' # state \/ toolResponse' # toolResponse)
  /\ UNCHANGED <<now, prev, lastAction, run, sent, arrived, built,
                 sessionBefore, lvars>>

\* The toolResponse effect: a non-null toolResponse is handed to
\* client.sendToolResponse and setToolResponse(null) is queued.
ToolResponseEffect ==
  /\ effectPending
  /\ effectPending' = FALSE
  /\ IF ~toolResponse.isNull
     THEN /\ sent' = Append(sent, toolResponse)
          /\ toolResponseQueue' = Append(toolResponseQueue, NullResponse)
     ELSE UNCHANGED <<sent, toolResponseQueue>>
  /\ UNCHANGED <<state, now, prev, lastAction, run, updates, toolResponse,
                 arrived, built, sessionBefore, lvars>>

\* Mutant: start() also starts the lesson itself, dispatching START_LESSON.
start_DispatchesStartLesson(ctx) ==
  /\ isAwaitingFirstResponse' = TRUE
  /\ updates' = Append(updates, [type |-> "START_LESSON", batch |-> 0])
  /\ IF ctx.state = "IN_PROGRESS"
     THEN UNCHANGED utterances
     ELSE utterances' = utterances + 1

\* start(): `ctx` is the session of the render whose button was clicked.
\* It sets the waiting flag and, unless the lesson is in progress, sends
\* the opening utterance with client.send; it dispatches nothing.
start(ctx) ==
  /\ isAwaitingFirstResponse' = TRUE
  /\ UNCHANGED updates
  /\ IF ctx.state = "IN_PROGRESS"
     THEN UNCHANGED utterances
     ELSE utterances' = utterances + 1

\* The user clicks Start (enabled unless the lesson is in progress) while
\* connected: onClick calls start() at once.
StartClick ==
  /\ listening
  /\ connected
  /\ state.state # "IN_PROGRESS"
  /\ utterances < MaxUtterances
  /\ start(state)
  /\ UNCHANGED <<state, now, prev, lastAction, run, toolResponseQueue,
                 toolResponse, effectPending, sent, arrived, built,
                 sessionBefore, connected, listening, ignored>>

\* The user clicks Start while not connected: onClick awaits connect() and
\* then calls start().  No toolcall can arrive before the connection is up.
ConnectThenStart ==
  /\ listening
  /\ ~connected
  /\ state.state # "IN_PROGRESS"
  /\ utterances < MaxUtterances
  /\ connected' = TRUE
  /\ start(state)
  /\ UNCHANGED <<state, now, prev, lastAction, run, toolResponseQueue,
                 toolResponse, effectPending, sent, arrived, built,
                 sessionBefore, listening, ignored>>

\* The component unmounts: React runs the effects still scheduled first,
\* then the cleanup calls client.off("toolcall", onToolCall) and the
\* component's own state (toolResponse and its queued updates) is dropped.
\* The provider reduces the dispatches already queued in the same render.
Unmount ==
  /\ listening
  /\ ~effectPending
  /\ listening' = FALSE
  /\ state' = ApplyUpdates(state, updates, now)
  /\ updates' = <<>>
  /\ toolResponseQueue' = <<>>
  /\ toolResponse' = NullResponse
  /\ UNCHANGED <<now, prev, lastAction, run, effectPending, sent, arrived,
                 built, sessionBefore, connected, isAwaitingFirstResponse,
                 utterances, ignored>>

\* The transport emits `toolcall` after the listener was removed: no handler
\* runs.
IgnoredToolCallEvent ==
  /\ connected
  /\ ~listening
  /\ Len(arrived) + ignored < MaxBatches
  /\ ignored' = ignored + 1
  /\ UNCHANGED <<state, now, prev, lastAction, run, updates,
                 toolResponseQueue, toolResponse, effectPending, sent,
                 arrived, built, sessionBefore, connected, listening,
                 isAwaitingFirstResponse, utterances>>

DispatcherNext ==
  \/ ToolCallEvent
  \/ Render
  \/ ToolResponseEffect
  \/ StartClick
  \/ ConnectThenStart
  \/ Unmount
  \/ IgnoredToolCallEvent

DispatcherSpec == Init /\ [][DispatcherNext]_vars

\* ---------------------------------------------------------------- helpers
\* Positions (0-based) of the instructions that are InProgress or
\* WaitingResponse.
ActiveIndexes(ctx) ==
  {index \in 0..(Len(ctx.instructions) - 1) :
     ctx.instructions[index + 1].state \in {"IN_PROGRESS", "WAITING_RESPONSE"}}

TypeOK ==
  /\ state.state \in LessonState
  /\ state.currentInstructionIndex \in Int
  /\ \A i \in DOMAIN state.instructions :
       /\ state.instructions[i].state \in InstructionState
       /\ state.instructions[i].completed \in 0..MaxClock
  /\ now \in 1..MaxClock
  /\ lastAction \in LessonContextActions \cup {UnrecognizedType, "NONE"}

\* Number of instructions of the mounted lesson.
NumInstructions == Len(state.instructions)

\* Every instruction of ctx has status s.
AllInstructions(ctx, s) ==
  \A i \in DOMAIN ctx.instructions : ctx.instructions[i].state = s

\* ----------------------------------------------------------------- claims

\* C1: in every state reachable from the initial Idle session by any
\* sequence of the six actions, at most one instruction is InProgress or
\* WaitingResponse.
C1_AtMostOneActive ==
  Cardinality(ActiveIndexes(state)) <= 1

\* C1 witness: a step forward has been taken in a lesson of two steps or
\* more, leaving a completed instruction behind the single active one.
C1_Witness ==
  /\ lastAction = "MOVE_TO_NEXT"
  /\ state.currentInstructionIndex >= 1
  /\ state.instructions[state.currentInstructionIndex].state = "COMPLETED"
  /\ ActiveIndexes(state) = {state.currentInstructionIndex}

\* C2 (as claimed): the number of InProgress/WaitingResponse instructions is
\* exactly one when the session status is InProgress or WaitingResponse and
\* zero when it is Idle or Completed.  Stated for lessons with at least one
\* instruction.
C2_ActiveCountMatchesStatus ==
  NumInstructions >= 1 =>
    Cardinality(ActiveIndexes(state)) =
      IF state.state \in {"IN_PROGRESS", "WAITING_RESPONSE"} THEN 1 ELSE 0

\* C3 (as claimed): StartLesson followed by MoveToNext n times, n >= 1 the
\* number of instructions, yields status Completed with every instruction
\* Completed.
C3_StartThenAllNextsCompletes ==
  (run.active /\ NumInstructions >= 1 /\ run.moves = NumInstructions) =>
    /\ state.state = "COMPLETED"
    /\ AllInstructions(state, "COMPLETED")

\* C4: MoveToNext applied when currentIndex + 1 >= number of instructions
\* sets the session status to Completed and leaves currentIndex unchanged;
\* after any MoveToNext currentIndex is at most the last valid position.
C4_NextAtLastCompletes ==
  lastAction = "MOVE_TO_NEXT" =>
    /\ (prev.currentInstructionIndex + 1 >= Len(prev.instructions) =>
          /\ state.state = "COMPLETED"
          /\ state.currentInstructionIndex = prev.currentInstructionIndex)
    /\ (NumInstructions >= 1 =>
          state.currentInstructionIndex <= NumInstructions - 1)

\* C4 witness: MoveToNext was applied at the last index of a started lesson
\* of two steps or more.
C4_Witness ==
  /\ lastAction = "MOVE_TO_NEXT"
  /\ Len(prev.instructions) >= 2
  /\ prev.state = "IN_PROGRESS"
  /\ prev.currentInstructionIndex = Len(prev.instructions) - 1
  /\ state.state = "COMPLETED"

\* C5: ResetLesson yields status Idle, currentIndex 0, every instruction
\* Idle with no completion timestamp, and applying it again changes nothing.
C5_ResetIdempotent ==
  lastAction = "RESET_LESSON" =>
    /\ state.state = "IDLE"
    /\ state.currentInstructionIndex = 0
    /\ \A i \in DOMAIN state.instructions :
         /\ state.instructions[i].state = "IDLE"
         /\ state.instructions[i].completed = Null
    /\ Len(state.instructions) = Len(prev.instructions)
    /\ InstructionsReducer(state, "RESET_LESSON", now) = state

\* C5 witness: ResetLesson was applied to a session that had advanced and
\* held a completion timestamp.
C5_Witness ==
  /\ lastAction = "RESET_LESSON"
  /\ prev.currentInstructionIndex >= 1
  /\ \E i \in DOMAIN prev.instructions : prev.instructions[i].completed # Null

\* C6: MoveToPrevious applied when currentIndex is 0 or 1 yields exactly the
\* session ResetLesson yields (status Idle, currentIndex 0, all instructions
\* Idle), and currentIndex is never negative.
C6_PreviousAtStartResets ==
  /\ state.currentInstructionIndex >= 0
  /\ (lastAction = "MOVE_TO_PREVIOUS" /\ prev.currentInstructionIndex \in {0, 1}) =>
       /\ state = InstructionsReducer(prev, "RESET_LESSON", now)
       /\ state.state = "IDLE"
       /\ state.currentInstructionIndex = 0
       /\ AllInstructions(state, "IDLE")

\* C6 witness: MoveToPrevious was applied at the second instruction of a
\* lesson in progress.
C6_Witness ==
  /\ lastAction = "MOVE_TO_PREVIOUS"
  /\ prev.currentInstructionIndex = 1
  /\ prev.state = "IN_PROGRESS"
  /\ state.state = "IDLE"

\* C7 (as claimed): MoveToNext applied to a session whose status is
\* InProgress or WaitingResponse and whose currentIndex is not the last
\* index yields session status InProgress, marks the former current
\* instruction Completed with a completion timestamp, increases currentIndex
\* by exactly 1, marks the new current instruction InProgress and leaves all
\* other instructions unchanged.
C7_NextAdvances ==
  (/\ lastAction = "MOVE_TO_NEXT"
   /\ prev.state \in {"IN_PROGRESS", "WAITING_RESPONSE"}
   /\ prev.currentInstructionIndex + 1 < Len(prev.instructions)) =>
    /\ state.state = "IN_PROGRESS"
    /\ state.currentInstructionIndex = prev.currentInstructionIndex + 1
    /\ state.instructions[prev.currentInstructionIndex + 1].state = "COMPLETED"
    /\ state.instructions[prev.currentInstructionIndex + 1].completed # Null
    /\ state.instructions[state.currentInstructionIndex + 1].state = "IN_PROGRESS"
    /\ \A i \in DOMAIN prev.instructions :
         (i - 1) \notin {prev.currentInstructionIndex, state.currentInstructionIndex}
           => state.instructions[i] = prev.instructions[i]

\* C8 (as claimed): MoveToPrevious applied to a session whose status is
\* InProgress or WaitingResponse and whose currentIndex is >= 2 yields
\* session status InProgress, marks the former current instruction Idle,
\* decreases currentIndex by exactly 1, marks the new current instruction
\* InProgress with no completion timestamp and leaves all other instructions
\* unchanged.
C8_PreviousRewinds ==
  (/\ lastAction = "MOVE_TO_PREVIOUS"
   /\ prev.state \in {"IN_PROGRESS", "WAITING_RESPONSE"}
   /\ prev.currentInstructionIndex >= 2) =>
    /\ state.state = "IN_PROGRESS"
    /\ state.currentInstructionIndex = prev.currentInstructionIndex - 1
    /\ state.instructions[prev.currentInstructionIndex + 1].state = "IDLE"
    /\ state.instructions[state.currentInstructionIndex + 1].state = "IN_PROGRESS"
    /\ state.instructions[state.currentInstructionIndex + 1].completed = Null
    /\ \A i \in DOMAIN prev.instructions :
         (i - 1) \notin {prev.currentInstructionIndex, state.currentInstructionIndex}
           => state.instructions[i] = prev.instructions[i]

\* C9: CompleteLesson applied in any session state yields status Completed
\* with every instruction Completed and leaves currentIndex unchanged.
C9_CompleteLessonCompletesAll ==
  lastAction = "COMPLETE_LESSON" =>
    /\ state.state = "COMPLETED"
    /\ AllInstructions(state, "COMPLETED")
    /\ Len(state.instructions) = Len(prev.instructions)
    /\ state.currentInstructionIndex = prev.currentInstructionIndex

\* C9 witness: CompleteLesson was applied mid-lesson, with instructions
\* still Idle ahead of the current one.
C9_Witness ==
  /\ lastAction = "COMPLETE_LESSON"
  /\ prev.state \in {"IN_PROGRESS", "WAITING_RESPONSE"}
  /\ prev.currentInstructionIndex >= 1
  /\ \E i \in DOMAIN prev.instructions : prev.instructions[i].state = "IDLE"

\* C10 (as claimed): WaitForResponse applied to a session with status
\* InProgress turns the InProgress instruction into WaitingResponse, sets
\* the session status to WaitingResponse and leaves currentIndex and all
\* other instructions unchanged; and the session status is WaitingResponse
\* only when the current instruction is WaitingResponse.  Stated for lessons
\* with at least one instruction.
C10_WaitForResponse ==
  NumInstructions >= 1 =>
    /\ (lastAction = "WAIT_FOR_RESPONSE" /\ prev.state = "IN_PROGRESS") =>
         /\ state.state = "WAITING_RESPONSE"
         /\ state.currentInstructionIndex = prev.currentInstructionIndex
         /\ \A i \in DOMAIN prev.instructions :
              state.instructions[i] =
                IF prev.instructions[i].state = "IN_PROGRESS"
                THEN [prev.instructions[i] EXCEPT !.state = "WAITING_RESPONSE"]
                ELSE prev.instructions[i]
    /\ state.state = "WAITING_RESPONSE" =>
         /\ state.currentInstructionIndex \in 0..(NumInstructions - 1)
         /\ state.instructions[state.currentInstructionIndex + 1].state
              = "WAITING_RESPONSE"

\* C11: StartLesson applied to an Idle session (with at least one
\* instruction) yields status InProgress, currentIndex 0, instruction 0
\* InProgress with no completion timestamp and every other instruction Idle.
C11_StartFromIdle ==
  (/\ lastAction = "START_LESSON"
   /\ prev.state = "IDLE"
   /\ NumInstructions >= 1) =>
    /\ state.state = "IN_PROGRESS"
    /\ state.currentInstructionIndex = 0
    /\ state.instructions[1].state = "IN_PROGRESS"
    /\ state.instructions[1].completed = Null
    /\ \A i \in DOMAIN state.instructions :
         i # 1 => state.instructions[i].state = "IDLE"
    /\ Len(state.instructions) = Len(prev.instructions)

\* C11 witness: StartLesson was applied to the Idle session of a lesson of
\* two steps or more.
C11_Witness ==
  /\ lastAction = "START_LESSON"
  /\ prev.state = "IDLE"
  /\ NumInstructions >= 2
  /\ state.state = "IN_PROGRESS"

\* C17: for a session with at least one instruction, currentIndex is an
\* integer with 0 <= currentIndex < number of instructions in every
\* reachable state.
C17_IndexInRange ==
  NumInstructions >= 1 =>
    state.currentInstructionIndex \in 0..(NumInstructions - 1)

\* C17 witness: the lesson is in progress at its last position, two steps or
\* more from the start.
C17_Witness ==
  /\ NumInstructions >= 2
  /\ state.state = "IN_PROGRESS"
  /\ state.currentInstructionIndex = NumInstructions - 1

\* C18: the reducer applied with an action tag that is none of the six
\* returns the session it was given, unchanged.
C18_UnrecognizedUnchanged ==
  lastAction = UnrecognizedType => state = prev

\* C18 witness: an unrecognized tag was dispatched mid-lesson.
C18_Witness ==
  /\ lastAction = UnrecognizedType
  /\ state.state = "IN_PROGRESS"
  /\ state.currentInstructionIndex >= 1

\* C19: in every reachable state an instruction has a completion timestamp
\* if and only if its status is Completed.
C19_DateIffCompleted ==
  \A i \in DOMAIN state.instructions :
    (state.instructions[i].completed # Null)
      <=> (state.instructions[i].state = "COMPLETED")

\* C19 witness: a step back has returned a Completed instruction to
\* InProgress, clearing its timestamp, while an earlier instruction keeps
\* its own.
C19_Witness ==
  /\ lastAction = "MOVE_TO_PREVIOUS"
  /\ state.currentInstructionIndex = 1
  /\ prev.instructions[2].completed # Null
  /\ state.instructions[2].state = "IN_PROGRESS"
  /\ state.instructions[2].completed = Null
  /\ state.instructions[1].completed # Null

\* ------------------------------------------------------ dispatcher claims
\* The tool names of the mapping table.
TableNames ==
  {"start_lesson", "reset_lesson", "complete_lesson", "verify_step",
   "go_to_next_step", "go_to_previous_step"}

\* The mapping table: tool name -> action.
TableAction(name) ==
  CASE name = "start_lesson"        -> "START_LESSON"
    [] name = "reset_lesson"        -> "RESET_LESSON"
    [] name = "complete_lesson"     -> "COMPLETE_LESSON"
    [] name = "verify_step"         -> "MOVE_TO_NEXT"
    [] name = "go_to_next_step"     -> "MOVE_TO_NEXT"
    [] name = "go_to_previous_step" -> "MOVE_TO_PREVIOUS"

\* transition applied once per function call of `calls`, in order, with the
\* action the table gives, skipping the names the table does not hold.
RECURSIVE ApplyTable(_, _, _)
ApplyTable(st, calls, date) ==
  IF calls = <<>>
  THEN st
  ELSE ApplyTable(IF Head(calls).name \in TableNames
                  THEN InstructionsReducer(st, TableAction(Head(calls).name), date)
                  ELSE st,
                  Tail(calls), date)

\* The function calls of a sequence of batches, in arrival order.
RECURSIVE Flatten(_)
Flatten(batches) ==
  IF batches = <<>> THEN <<>>
  ELSE Head(batches) \o Flatten(Tail(batches))

\* The names of the function calls of a batch.
NamesOf(fCalls) == {fCalls[i].name : i \in 1..Len(fCalls)}

\* The ToolResponse onToolCall built for event k.
BuiltResponse(k) == [functionResponses |-> built[k], isNull |-> FALSE]

\* Event k's acknowledgements were handed to client.sendToolResponse.
NumSent(k) == Cardinality({j \in 1..Len(sent) : sent[j] = BuiltResponse(k)})

\* Event k's acknowledgements wait in the component for their delivery.
InFlight(k) ==
  \/ \E j \in 1..Len(toolResponseQueue) : toolResponseQueue[j] = BuiltResponse(k)
  \/ toolResponse = BuiltResponse(k)

\* Nothing is queued and no effect is scheduled: the component is at rest.
Quiescent ==
  /\ updates = <<>>
  /\ toolResponseQueue = <<>>
  /\ ~effectPending

\* The last toolcall event's function calls.
LastBatch == arrived[Len(arrived)]

\* C12: for every tool-call batch with at least one function call, the
\* acknowledgement batch onToolCall builds holds exactly one acknowledgement
\* per request, in request order, each with the id and name of its request
\* and the result "<name> OK.", whether or not the name maps to an action;
\* and every ToolResponse the component holds or has sent is such a batch.
C12_OneAckPerRequest ==
  /\ \A r \in {toolResponseQueue[j] : j \in 1..Len(toolResponseQueue)}
               \cup {toolResponse} \cup {sent[j] : j \in 1..Len(sent)} :
       ~r.isNull =>
         \E k \in 1..Len(arrived) :
           Len(arrived[k]) >= 1 /\ r = BuiltResponse(k)
  /\ \A k \in 1..Len(arrived) :
       Len(arrived[k]) >= 1 =>
         /\ Len(built[k]) = Len(arrived[k])
         /\ \A i \in 1..Len(arrived[k]) :
              /\ built[k][i].id = arrived[k][i].id
              /\ built[k][i].name = arrived[k][i].name
              /\ built[k][i].response.result.string_value
                   = <<arrived[k][i].name, " OK.">>

\* C12 witness: a batch of a mapped call followed by an unknown one has been
\* handled.
C12_Witness ==
  /\ Len(arrived) = 1
  /\ Len(arrived[1]) = 2
  /\ arrived[1][1].name = "go_to_next_step"
  /\ arrived[1][2].name = UnknownToolName
  /\ Len(built[1]) = 2

\* C13: a function call whose name is not in the mapping table (an unknown
\* name, program_opened) does not change the session: the session after a
\* batch is the one the batch gives with those calls left out, so a batch of
\* such calls only leaves the session as it was; and each such call gets its
\* acknowledgement built like any other.
C13_UnmappedCallsLeaveSession ==
  arrived # <<>> =>
    LET inTable(fCall) == fCall.name \in TableNames
        kept == SelectSeq(LastBatch, inTable)
    IN /\ Session = ApplyUpdates(sessionBefore, Dispatches(kept, 0), now)
       /\ (kept = <<>> => Session = sessionBefore)
       /\ Len(built[Len(arrived)]) = Len(LastBatch)
       /\ \A i \in 1..Len(LastBatch) :
            built[Len(arrived)][i].id = LastBatch[i].id

\* C13 witness: on a started lesson, a batch of one program_opened or
\* unknown call was handled and rendered.
C13_Witness ==
  /\ Len(arrived) = 2
  /\ NamesOf(arrived[1]) = {"start_lesson"}
  /\ Len(LastBatch) = 1
  /\ LastBatch[1].name \in {"program_opened", UnknownToolName}
  /\ sessionBefore.state = "IN_PROGRESS"
  /\ Quiescent
  /\ state.state = "IN_PROGRESS"

\* C14 (as claimed, for the batches that carry at least one function call):
\* once the component is at rest, client.sendToolResponse has been called
\* exactly once for every batch that arrived, with that batch's
\* acknowledgements.
C14_EachBatchSentOnce ==
  Quiescent =>
    \A k \in 1..Len(arrived) :
      Len(arrived[k]) >= 1 => NumSent(k) = 1

\* C15: the session after the batches that arrived equals the result of
\* applying transition once per function call, in arrival order, with the
\* action of the mapping table, skipping the names it does not hold.
C15_SessionFollowsTable ==
  Session = ApplyTable(LessonProvider(NumInstructions), Flatten(arrived), now)

\* C15 witness: start_lesson then verify_step were handled and rendered,
\* and the lesson stands at its second instruction.
C15_Witness ==
  /\ updates = <<>>
  /\ NamesOf(Flatten(arrived)) = {"start_lesson", "verify_step"}
  /\ state.state = "IN_PROGRESS"
  /\ state.currentInstructionIndex = 1

\* C16 (as claimed): whatever the arrival times of the batches, their
\* transitions are applied in arrival order, and the acknowledgements of
\* every batch with at least one call are either still waiting in the
\* component for their delivery or have been handed to
\* client.sendToolResponse: none is lost or overwritten.
C16_BatchesAtomic ==
  /\ Session = ApplyUpdates(LessonProvider(NumInstructions),
                            Dispatches(Flatten(arrived), 0), now)
  /\ \A k \in 1..Len(arrived) :
       Len(arrived[k]) >= 1 => (InFlight(k) \/ NumSent(k) >= 1)

\* C20: when a batch's acknowledgements have been handed to
\* client.sendToolResponse, none of that batch's dispatches is still waiting
\* to be reduced: the session reflects every mapped call of the batch.
C20_SentAfterTransitions ==
  \A k \in 1..Len(arrived) :
    (Len(arrived[k]) >= 1 /\ NumSent(k) >= 1) =>
      \A i \in 1..Len(updates) : updates[i].batch # k

\* C20 witness: the first batch started the lesson and was acknowledged,
\* while the dispatch of a second batch still waits to be reduced.
C20_Witness ==
  /\ Len(sent) = 1
  /\ NumSent(1) = 1
  /\ "start_lesson" \in NamesOf(arrived[1])
  /\ state.state = "IN_PROGRESS"
  /\ updates # <<>>

\* ------------------------------------------------- frame and index claims
\* C21: no transition changes the length of the instruction list or the
\* task, verificationTask and verification input type held at any position:
\* position i still holds the content it was created with.
C21_ContentFixed ==
  /\ Len(state.instructions) = Len(prev.instructions)
  /\ \A i \in DOMAIN state.instructions :
       LET created == initialInstructions(NumInstructions)[i] IN
       /\ state.instructions[i].task = created.task
       /\ state.instructions[i].verificationTask = created.verificationTask
       /\ state.instructions[i].verificationTaskInputType
            = created.verificationTaskInputType

\* C21 witness: a lesson of three steps or more was completed as a whole
\* from its third instruction, so every instruction has been rewritten.
C21_Witness ==
  /\ lastAction = "COMPLETE_LESSON"
  /\ NumInstructions >= 3
  /\ prev.currentInstructionIndex = 2
  /\ prev.instructions[3].state = "IN_PROGRESS"

\* C23: in every reachable state an instruction that is InProgress or
\* WaitingResponse is the one at currentIndex; every instruction at another
\* position is Idle or Completed.
C23_ActiveIsCurrent ==
  ActiveIndexes(state) \subseteq {state.currentInstructionIndex}

\* C23 witness: past the first instruction, the current instruction waits
\* for a response.
C23_Witness ==
  /\ lastAction = "WAIT_FOR_RESPONSE"
  /\ state.currentInstructionIndex >= 1
  /\ ActiveIndexes(state) = {state.currentInstructionIndex}
  /\ state.instructions[state.currentInstructionIndex + 1].state
       = "WAITING_RESPONSE"

\* C24: StartLesson is accepted in every session state and restarts the
\* lesson: its result equals that of ResetLesson followed by StartLesson,
\* that is status InProgress, currentIndex 0, instruction 0 InProgress and
\* every other instruction Idle, none with a completion timestamp.
C24_StartRestarts ==
  lastAction = "START_LESSON" =>
    /\ state = InstructionsReducer(
                 InstructionsReducer(prev, "RESET_LESSON", now),
                 "START_LESSON", now)
    /\ state.state = "IN_PROGRESS"
    /\ state.currentInstructionIndex = 0
    /\ \A i \in DOMAIN state.instructions :
         /\ state.instructions[i].state
              = IF i = 1 THEN "IN_PROGRESS" ELSE "IDLE"
         /\ state.instructions[i].completed = Null

\* C24 witness: StartLesson was applied to a Completed session that stood
\* past its first instruction and held completion timestamps.
C24_Witness ==
  /\ lastAction = "START_LESSON"
  /\ prev.state = "COMPLETED"
  /\ prev.currentInstructionIndex >= 1
  /\ \E i \in DOMAIN prev.instructions : prev.instructions[i].completed # Null

\* C22: the session changes only by the reducer applied to the dispatches
\* of onToolCall.  A step that delivers an acknowledgement batch, connects,
\* runs the user's start action or meets a removed listener leaves the
\* session and the queued dispatches unchanged; the session changes only by
\* reducing the queued dispatches, which only a delivered toolcall event
\* adds; start sends its utterance only when the session status is not
\* InProgress; and once the listener is removed no step changes the session
\* that the dispatches made so far amount to.
C22_SingleWriter ==
  [][ /\ (\/ sent' # sent
          \/ connected' # connected
          \/ utterances' # utterances
          \/ isAwaitingFirstResponse' # isAwaitingFirstResponse
          \/ ignored' # ignored)
         => (state' = state /\ updates' = updates)
      /\ state' # state =>
           (updates # <<>> /\ state' = ApplyUpdates(state, updates, now))
      /\ (updates' # updates /\ updates' # <<>>) =>
           (listening /\ arrived' # arrived)
      /\ utterances' # utterances => state.state # "IN_PROGRESS"
      /\ ~listening =>
           (arrived' = arrived /\
            ApplyUpdates(state', updates', now') = ApplyUpdates(state, updates, now))
    ]_vars

\* C22 witness: the user started the conversation, start_lesson was handled
\* and acknowledged, the component was unmounted and a later toolcall event
\* found no listener; the lesson is still in progress.
C22_Witness ==
  /\ utterances >= 1
  /\ isAwaitingFirstResponse
  /\ Len(sent) >= 1
  /\ ~listening
  /\ ignored >= 1
  /\ state.state = "IN_PROGRESS"

====
